---- MODULE Spec2Model ----
(***************************************************************************)
(* Model of dc6006l/__init__.py: the fragment decoder                      *)
(* (GenericPS.parse_status), the stream reader (GenericPS.trace), the      *)
(* status aggregator (GenericPS.stat), the command encoder (GenericPS.set, *)
(* GenericPS.send), the read-back verification (GenericPS.check) and the   *)
(* command loop (handle_command).                                          *)
(*                                                                         *)
(* Bytes are integers 0..255; text is a sequence of bytes.  A float that   *)
(* Python obtains by true division of two small integers is modelled by    *)
(* the reduced fraction (two such floats are equal exactly when the        *)
(* fractions are).  Time is counted in ticks of the pacing delay           *)
(* (delay = 0.5 s = 1 tick); the clock advances only in time.sleep.        *)
(***************************************************************************)
EXTENDS Integers, Sequences, FiniteSets, TLC

VARIABLES
  items0,     \* what the device emits during the session (list of items)
  wire,       \* bytes emitted by the device and not yet read (sio)
  buf,        \* trace: buf
  nr,         \* trace: nr (records still wanted; negative = no limit)
  nr0,        \* the nr the session was started with
  timeout,    \* trace: timeout, in ticks
  clock,      \* time.time() - t0, in ticks
  yielded,    \* the records yielded so far
  ends,       \* ret.end() of every successful decode so far
  pc,         \* position: "loop" | "done" | "raised" | "returned" | ...
  err,        \* "" or the exception that ended the session
  caller,     \* "parse" | "trace" | "stat" | "handle_command" | "roundtrip"
  snapshot,   \* stat: the dict being merged
  statRet,    \* stat: the return value
  lastIn,     \* argument of the latest parse_status call
  lastOut,    \* result of the latest parse_status call
  firstRead,  \* -1, or the number of bytes the first sio.read returned
  stalls,     \* reads that returned nothing while the device had more to send
  args,       \* handle_command: opt.args, as (key, value) pairs
  ip,         \* handle_command: index of the command being executed
  check_mode, \* GenericPS.check_mode
  writes,     \* the commands written to sio so far, in order
  paced,      \* the time.sleep(self.delay) calls made by send so far
  port        \* dc.sio: "closed" | "open"

\* the state of the command loop and of the encoder
setvars == <<args, ip, check_mode, writes, paced, port>>

vars == <<items0, wire, buf, nr, nr0, timeout, clock, yielded, ends, pc, err,
          caller, snapshot, statRet, lastIn, lastOut, firstRead, stalls,
          args, ip, check_mode, writes, paced, port>>

----------------------------------------------------------------------------
(* Bounds of the model *)

MaxFrags == 3        \* items in a buffer handed to parse_status (SpecParse)
MaxItems == 2        \* items of a mixed device output in one trace session
MaxStalls == 1       \* reads that find nothing although output is pending
MaxNr == 3           \* largest record count requested
MaxCenti == 30       \* largest voltage, in hundredths, of the round trip

----------------------------------------------------------------------------
(* Bytes and text *)

SepA == 65           \* the literal 'A' of the patterns
Newline == 10        \* '\n', the one character '.' does not match
AsciiLimit == 128    \* bytes.decode('ascii') accepts 0..127

IsDigit(c) == c \in 48..57

IsAscii(c) == c < AsciiLimit

\* buf.decode('ascii') succeeds
Decodable(b) == \A i \in 1..Len(b) : IsAscii(b[i])

RECURSIVE Pow10(_)
Pow10(w) == IF w = 0 THEN 1 ELSE 10 * Pow10(w - 1)

\* the zero-padded decimal text of n in w digits
Digits(n, w) == [i \in 1..w |-> 48 + ((n \div Pow10(w - i)) % 10)]

\* int(v) for the w digits of text starting at pos
RECURSIVE IntAt(_, _, _)
IntAt(text, pos, w) ==
  IF w = 0 THEN 0
  ELSE 10 * IntAt(text, pos, w - 1) + (text[pos + w - 1] - 48)

RECURSIVE Gcd(_, _)
Gcd(a, b) == IF b = 0 THEN a ELSE Gcd(b, a % b)

\* Python's n / d for small non-negative integers
TrueDiv(n, d) == [num |-> n \div Gcd(n, d), den |-> d \div Gcd(n, d)]

Suffix(s, from) == SubSeq(s, from, Len(s))

IsPrefix(s, t) == Len(s) <= Len(t) /\ SubSeq(t, 1, Len(s)) = s

----------------------------------------------------------------------------
(* The four patterns of parse_status.  Every pattern is a run of groups,   *)
(* each a fixed number of digits followed by 'A'.                          *)

LiveWidths == <<4, 4, 4, 1, 3, 1, 1, 1>>

\* "" is the unnamed group (\d)A, which groupdict() leaves out
LiveNames ==
  <<"voltage", "current", "power", "", "temperature", "mode", "cause", "enable">>

\* (?P<opp>\d{4,5}) is greedy: five digits are tried before four
LimitsWidths5 == <<4, 4, 5, 1, 2, 2, 2>>

LimitsWidths4 == <<4, 4, 4, 1, 2, 2, 2>>

LimitsNames == <<"ovp", "ocp", "opp", "ohp_enable", "ohp_h", "ohp_m", "ohp_s">>

TargetsWidths == <<4, 4>>

TargetsNames == <<"target_voltage", "target_current">>

CauseTable == <<"none", "OVP", "OCP", "OPP", "OTP", "OHP">>

\* the groups `widths` match text from position pos on: the position after
\* the last separator, or 0 when they do not match
RECURSIVE MatchGroups(_, _, _)
MatchGroups(text, pos, widths) ==
  IF widths = <<>> THEN pos
  ELSE LET w == Head(widths)
       IN IF /\ pos + w <= Len(text)
             /\ \A i \in 0..(w - 1) : IsDigit(text[pos + i])
             /\ text[pos + w] = SepA
          THEN MatchGroups(text, pos + w + 1, Tail(widths))
          ELSE 0

NoMatch == [matched |-> FALSE, start |-> 0, widths |-> <<>>, end |-> 0]

\* a match object: the groups start at `start`, ret.end() = end
MatchAt(text, start, widths) ==
  LET e == MatchGroups(text, start, widths)
  IN IF e = 0 THEN NoMatch
     ELSE [matched |-> TRUE, start |-> start, widths |-> widths, end |-> e - 1]

\* re.match of the type-0 pattern
MatchLive(text) == MatchAt(text, 1, LiveWidths)

\* re.match of the type-1 pattern
MatchLimits(text) ==
  IF MatchAt(text, 1, LimitsWidths5).matched
  THEN MatchAt(text, 1, LimitsWidths5)
  ELSE MatchAt(text, 1, LimitsWidths4)

\* re.match of the type-2 pattern
MatchTargets(text) == MatchAt(text, 1, TargetsWidths)

\* '.*?' may skip the first p characters: none of them is a newline
Skippable(text, p) == \A i \in 1..p : text[i] # Newline

\* characters a run of groups takes: the digits and one 'A' per group
RECURSIVE PatternLen(_)
PatternLen(widths) ==
  IF widths = <<>> THEN 0 ELSE Head(widths) + 1 + PatternLen(Tail(widths))

\* re.match of the type-3 pattern: the lazy '.*?' takes the shortest prefix
\* after which the type-0 groups match
MatchLiveWithPrefix(text) ==
  LET ps == {p \in 0..(Len(text) - PatternLen(LiveWidths)) :
               MatchAt(text, p + 1, LiveWidths).matched /\ Skippable(text, p)}
  IN IF ps = {} THEN NoMatch
     ELSE MatchAt(text, (CHOOSE p \in ps : \A q \in ps : p <= q) + 1, LiveWidths)

\* the list `results`, indexed by frag_type + 1
results(text) ==
  <<MatchLive(text), MatchLimits(text), MatchTargets(text),
    MatchLiveWithPrefix(text)>>

NamesOf(frag_type) ==
  CASE frag_type = 1 -> LimitsNames
    [] frag_type = 2 -> TargetsNames
    [] OTHER -> LiveNames

\* position of the k-th group of a match
RECURSIVE GroupPos(_, _, _)
GroupPos(start, widths, k) ==
  IF k = 1 THEN start
  ELSE GroupPos(start + widths[1] + 1, Tail(widths), k - 1)

\* {k: int(v) for k, v in ret.groupdict().items()}
groupdict(text, m, names) ==
  [k \in {names[i] : i \in 1..Len(names)} \ {""} |->
     LET i == CHOOSE j \in 1..Len(names) : names[j] = k
     IN IntAt(text, GroupPos(m.start, m.widths, i), m.widths[i])]

\* the shape-specific scaling of parse_status; the cause lookup raises
\* IndexError outside the table, so this is used only when it is inside
PostProcess(frag_type, stat) ==
  CASE frag_type \in {0, 3} ->
         [stat EXCEPT !["voltage"] = TrueDiv(@, 100),
                      !["current"] = TrueDiv(@, 1000),
                      !["power"] = TrueDiv(@, 100),
                      !["mode"] = IF @ = 0 THEN "CV" ELSE "CC",
                      !["cause"] = CauseTable[@ + 1]]
    [] frag_type = 1 ->
         [stat EXCEPT !["ovp"] = TrueDiv(@, 100),
                      !["opp"] = TrueDiv(@, 100)]
    [] OTHER ->
         [stat EXCEPT !["target_voltage"] = TrueDiv(@, 100),
                      !["target_current"] = TrueDiv(@, 1000)]

EmptyDict == [k \in {} |-> 0]

Result(kind, frag_type, stat, rest, end) ==
  [kind |-> kind, frag_type |-> frag_type, stat |-> stat, rest |-> rest,
   end |-> end]

\* a remainder that loses the byte after the match
RemainderSkipsOne(b, e) == Suffix(b, e + 2)

\* a remainder that keeps the matched bytes
RemainderWhole(b, e) == b

\* buf[ret.end():]
Remainder(b, e) == Suffix(b, e + 1)

\* parse_status(buf): kind "ok" is (stat, buf[ret.end():]), kind "none" is
\* (None, buf), any other kind is the exception raised
parse_status(b) ==
  IF ~Decodable(b)
  THEN Result("UnicodeDecodeError", -1, EmptyDict, b, 0)
  ELSE
    LET rs == results(b)
        hits == {t \in 0..3 : rs[t + 1].matched}
    IN IF hits = {} THEN Result("none", -1, EmptyDict, b, 0)
       ELSE
         LET frag_type == CHOOSE t \in hits : \A u \in hits : t <= u
             ret == rs[frag_type + 1]
             stat == groupdict(b, ret, NamesOf(frag_type))
         IN IF frag_type \in {0, 3} /\ stat["cause"] >= Len(CauseTable)
            THEN Result("IndexError", frag_type, EmptyDict, b, 0)
            ELSE Result("ok", frag_type, PostProcess(frag_type, stat),
                        Remainder(b, ret.end), ret.end)

----------------------------------------------------------------------------
(* What the device can put on the wire: fragments of the three layouts     *)
(* (any digits of the right widths) and bytes that belong to no fragment.  *)

Frag(shape, g, w) == [shape |-> shape, g |-> g, w |-> w]

LiveA == Frag("Live", <<500, 1000, 500, 0, 25, 0, 0, 1>>, LiveWidths)

LiveB == Frag("Live", <<1234, 5678, 9012, 3, 456, 1, 5, 0>>, LiveWidths)

\* a type-0 fragment whose cause digit is outside the table
LiveBad == Frag("Live", <<500, 1000, 500, 0, 25, 0, 7, 1>>, LiveWidths)

Limits4 == Frag("Limits", <<6200, 6100, 3600, 0, 1, 2, 3>>, LimitsWidths4)

Limits5 == Frag("Limits", <<6200, 6100, 36000, 1, 10, 20, 30>>, LimitsWidths5)

TargetsA == Frag("Targets", <<150, 1000>>, TargetsWidths)

TargetsZero == Frag("Targets", <<0, 0>>, TargetsWidths)

\* "XYZ"
RawXYZ == Frag("Raw", <<88, 89, 90>>, <<>>)

\* "KB", the prefix emitted on first connection
RawKB == Frag("Raw", <<75, 66>>, <<>>)

\* "\n"
RawNL == Frag("Raw", <<Newline>>, <<>>)

\* one byte that is not ASCII
RawHigh == Frag("Raw", <<200>>, <<>>)

\* the bytes of a fragment: each group zero-padded to its width, then 'A'
RECURSIVE EncodeGroups(_, _)
EncodeGroups(g, w) ==
  IF g = <<>> THEN <<>>
  ELSE Digits(Head(g), Head(w)) \o <<SepA>> \o EncodeGroups(Tail(g), Tail(w))

Encode(item) ==
  IF item.shape = "Raw" THEN item.g ELSE EncodeGroups(item.g, item.w)

RECURSIVE Flatten(_)
Flatten(items) ==
  IF items = <<>> THEN <<>> ELSE Encode(Head(items)) \o Flatten(Tail(items))

SeqsUpTo(S, n) == UNION {[1..k -> S] : k \in 0..n}

\* buffers handed to parse_status
ParseCatalog ==
  {LiveA, LiveB, LiveBad, Limits4, Limits5, TargetsA, TargetsZero,
   RawXYZ, RawKB, RawNL, RawHigh}

\* device output during a trace session: a mix of fragments and stray
\* bytes, or a burst of type-0 fragments (<type0>...<type0>)
StreamCatalog == {LiveA, LiveBad, Limits4, TargetsZero, RawKB, RawHigh}

LiveRun(n) == [i \in 1..n |-> LiveA]

Streams ==
  SeqsUpTo(StreamCatalog, MaxItems) \cup {LiveRun(n) : n \in 1..(MaxNr + 1)}

----------------------------------------------------------------------------
(* Time *)

Delay == 1                \* GenericPS.delay = 0.5 s, the tick

DefaultTimeout(n) == n * 3   \* timeout = nr * 1.5 (seconds), in ticks

\* timeouts passed explicitly to trace, in ticks (5 s)
Timeouts == {10}

\* sio.read(sio.in_waiting): how many of the pending bytes have arrived
\* 12 bytes end in the middle of the third group of a fragment
ChunkSizes == {12}

\* the reads possible now: a part of the pending bytes, all of them, or (a
\* bounded number of times) none of them
ReadSizes(w) ==
  {k \in ChunkSizes : k <= Len(w)} \cup {Len(w)}
  \cup (IF stalls < MaxStalls THEN {0} ELSE {})

----------------------------------------------------------------------------
(* dict.update *)

\* a merge in which the earlier value wins
UpdateKeepOld(d, e) ==
  [k \in DOMAIN d \cup DOMAIN e |-> IF k \in DOMAIN d THEN d[k] ELSE e[k]]

Update(d, e) ==
  [k \in DOMAIN d \cup DOMAIN e |-> IF k \in DOMAIN e THEN e[k] ELSE d[k]]

NoResult == Result("", -1, EmptyDict, <<>>, 0)

NoReturn == [kind |-> "pending", val |-> EmptyDict]

\* a GenericPS object in use outside handle_command: constructed, its port
\* open, no command of the command loop in progress
NoSet ==
  /\ args = <<>> /\ ip = 1
  /\ check_mode = FALSE
  /\ writes = <<>> /\ paced = 0
  /\ port = "open"

----------------------------------------------------------------------------
(* SpecParse: parse_status applied, again and again, to one buffer *)

InitParse ==
  /\ items0 \in SeqsUpTo(ParseCatalog, MaxFrags)
  /\ buf = Flatten(items0)
  /\ wire = <<>>
  /\ nr = 0 /\ nr0 = 0 /\ timeout = 0 /\ clock = 0
  /\ yielded = <<>> /\ ends = <<>>
  /\ pc = "ready" /\ err = ""
  /\ caller = "parse"
  /\ snapshot = EmptyDict /\ statRet = NoReturn
  /\ lastIn = <<>> /\ lastOut = NoResult
  /\ firstRead = -1 /\ stalls = 0
  /\ NoSet

\* stat, rest = parse_status(buf); on a record, go on with buf = rest
ParseApply ==
  /\ pc = "ready"
  /\ LET r == parse_status(buf)
     IN /\ lastIn' = buf
        /\ lastOut' = r
        /\ buf' = r.rest
        /\ IF r.kind = "ok"
           THEN /\ yielded' = Append(yielded, r.stat)
                /\ ends' = Append(ends, r.end)
                /\ UNCHANGED <<pc, err>>
           ELSE IF r.kind = "none"
           THEN /\ pc' = "nomatch"
                /\ UNCHANGED <<yielded, ends, err>>
           ELSE /\ pc' = "raised"
                /\ err' = r.kind
                /\ UNCHANGED <<yielded, ends>>
  /\ UNCHANGED <<items0, wire, nr, nr0, timeout, clock, caller, snapshot,
                 statRet, firstRead, stalls>>
  /\ UNCHANGED setvars

NextParse == ParseApply

SpecParse == InitParse /\ [][NextParse]_vars

----------------------------------------------------------------------------
(* Spec: one trace session, run by trace's caller or by stat *)

Session(c, n, t) == [caller |-> c, nr |-> n, timeout |-> t]

\* trace(nr) and trace(nr, timeout) for nr = -1 .. MaxNr; stat(nr) for 0 .. MaxNr
Sessions ==
  {Session("trace", n, DefaultTimeout(n)) : n \in -1..MaxNr}
  \cup {Session("trace", n, t) : n \in -1..MaxNr, t \in Timeouts}
  \cup {Session("stat", n, DefaultTimeout(n)) : n \in 0..MaxNr}

Init ==
  /\ items0 \in Streams
  /\ wire = Flatten(items0)
  /\ \E s \in Sessions :
       /\ caller = s.caller
       /\ nr = s.nr /\ nr0 = s.nr
       /\ timeout = s.timeout
  /\ clock = 0
  /\ buf = <<>>
  /\ yielded = <<>> /\ ends = <<>>
  /\ pc = "loop" /\ err = ""
  /\ snapshot = EmptyDict /\ statRet = NoReturn
  /\ lastIn = <<>> /\ lastOut = NoResult
  /\ firstRead = -1 /\ stalls = 0
  /\ NoSet

\* if stat: (a record was returned and the dict is not empty)
Truthy(r) == r.kind = "ok" /\ DOMAIN r.stat # {}

\* the count is never decremented
CountDownNever(n) == n

\* if nr > 0: nr -= 1
CountDown(n) == IF n > 0 THEN n - 1 ELSE n

\* a loop condition that does not look at the clock
LoopCondNoClock == nr # 0 /\ timeout > 0

\* while (nr != 0) and (timeout > 0 and (time.time() - t0) < timeout)
LoopCond == nr # 0 /\ timeout > 0 /\ clock < timeout

\* buf += self.sio.read(self.sio.in_waiting), k bytes having arrived
Read(k) ==
  /\ wire' = Suffix(wire, k + 1)
  /\ firstRead' = IF firstRead = -1 THEN k ELSE firstRead
  /\ stalls' = IF k = 0 /\ wire # <<>> THEN stalls + 1 ELSE stalls

\* an iteration that decodes a record: yield it, drop its bytes, count it;
\* stat merges what trace yields
TraceYield ==
  /\ pc = "loop" /\ LoopCond
  /\ \E k \in ReadSizes(wire) :
       LET b == buf \o SubSeq(wire, 1, k)
           r == parse_status(b)
       IN /\ Decodable(b)
          /\ Truthy(r)
          /\ Read(k)
          /\ lastIn' = b /\ lastOut' = r
          /\ yielded' = Append(yielded, r.stat)
          /\ ends' = Append(ends, r.end)
          /\ buf' = r.rest
          /\ nr' = CountDown(nr)
          /\ snapshot' = IF caller = "stat" THEN Update(snapshot, r.stat)
                         ELSE snapshot
  /\ UNCHANGED <<items0, nr0, timeout, clock, pc, err, caller, statRet>>
  /\ UNCHANGED setvars

\* an iteration that decodes nothing: time.sleep(self.delay)
TraceSleep ==
  /\ pc = "loop" /\ LoopCond
  /\ \E k \in ReadSizes(wire) :
       LET b == buf \o SubSeq(wire, 1, k)
           r == parse_status(b)
       IN /\ Decodable(b)
          /\ r.kind \in {"ok", "none"} /\ ~Truthy(r)
          /\ Read(k)
          /\ lastIn' = b /\ lastOut' = r
          /\ buf' = b
          /\ clock' = clock + Delay
  /\ UNCHANGED <<items0, nr, nr0, timeout, yielded, ends, pc, err, caller,
                 snapshot, statRet>>
  /\ UNCHANGED setvars

\* an iteration that raises: buf.decode('ascii') in the log.debug call, or
\* parse_status itself; the exception leaves trace and, through it, stat
TraceRaise ==
  /\ pc = "loop" /\ LoopCond
  /\ \E k \in ReadSizes(wire) :
       LET b == buf \o SubSeq(wire, 1, k)
           r == parse_status(b)
       IN /\ r.kind \notin {"ok", "none"}
          /\ Read(k)
          /\ IF Decodable(b)
             THEN lastIn' = b /\ lastOut' = r
             ELSE UNCHANGED <<lastIn, lastOut>>
          /\ buf' = b
          /\ pc' = "raised"
          /\ err' = r.kind
  /\ UNCHANGED <<items0, nr, nr0, timeout, clock, yielded, ends, caller,
                 snapshot, statRet>>
  /\ UNCHANGED setvars

\* the loop condition is false: the generator ends
TraceExit ==
  /\ pc = "loop" /\ ~LoopCond
  /\ pc' = "done"
  /\ UNCHANGED <<items0, wire, buf, nr, nr0, timeout, clock, yielded, ends,
                 err, caller, snapshot, statRet, lastIn, lastOut, firstRead,
                 stalls>>
  /\ UNCHANGED setvars

\* return stat if stat else None
StatReturn ==
  /\ caller = "stat" /\ pc = "done"
  /\ statRet' = IF DOMAIN snapshot # {}
                THEN [kind |-> "dict", val |-> snapshot]
                ELSE [kind |-> "None", val |-> EmptyDict]
  /\ pc' = "returned"
  /\ UNCHANGED <<items0, wire, buf, nr, nr0, timeout, clock, yielded, ends,
                 err, caller, snapshot, lastIn, lastOut, firstRead, stalls>>
  /\ UNCHANGED setvars

Next == TraceYield \/ TraceSleep \/ TraceRaise \/ TraceExit \/ StatReturn

Spec == Init /\ [][Next]_vars

----------------------------------------------------------------------------
(* The encoder: GenericPS.set and GenericPS.send.  A value is the float    *)
(* the command loop obtains by float(val); the model carries it as the     *)
(* number m of thousandths (value = m / 1000, m >= 0).  For 'mem' the      *)
(* value is a text, 'm1' or 'm2', carried as the number 1 or 2.            *)

\* float(val) as compared by != in check
Value(m) == TrueDiv(m, 1000)

\* the k for which the double k/100, times 100, is below k (0.29 * 100 is
\* 28.999999999999996): those among 0..60, 150, 9999 and 10000
Drift100 == {29, 57, 58}

\* the j for which the double j/1000, times 1000, is below j (1.001 * 1000
\* is 1000.9999999999999): those among 0..1010, 9999 and 10000
Drift1000 == {1001, 1003, 1005, 1007, 1009}

\* what %d makes of value * scale: the double product, truncated toward 0
Scaled(m, scale) ==
  LET q == (m * scale) \div 1000
      whole == (m * scale) % 1000 = 0
      drift == CASE scale = 100 -> q \in Drift100
                 [] scale = 1000 -> q \in Drift1000
                 [] OTHER -> FALSE
  IN IF whole /\ drift THEN q - 1 ELSE q

\* digits in the decimal text of n
RECURSIVE DecLen(_)
DecLen(n) == IF n < 10 THEN 1 ELSE 1 + DecLen(n \div 10)

\* "%0wd" % n for n >= 0: zero-padded to w digits, longer when n needs more
Format(n, w) == Digits(n, IF DecLen(n) > w THEN DecLen(n) ELSE w)

\* the text op + arg, which send writes followed by "\r\n"
Cmd(op, arg) == [op |-> op, arg |-> arg]

\* the commands one call of set sends, in order (set('check', ..) sends none)
SetCommands(key, m) ==
  CASE key \in {"power", "enable"} ->
         <<Cmd(IF m # 0 THEN "N" ELSE "F", <<>>)>>
    [] key \in {"log", "logging"} ->
         <<Cmd(IF m # 0 THEN "Q" ELSE "W", <<>>)>>
    [] key = "noprotect" ->
         IF m # 0 THEN <<Cmd("Z", <<>>)>> ELSE <<>>
    [] key \in {"v", "voltage"} -> <<Cmd("V", Format(Scaled(m, 100), 4))>>
    [] key \in {"c", "current"} -> <<Cmd("I", Format(Scaled(m, 1000), 4))>>
    [] key = "ovp" -> <<Cmd("B", Format(Scaled(m, 100), 4))>>
    [] key = "ocp" -> <<Cmd("D", Format(Scaled(m, 1000), 4))>>
    [] key = "opp" -> <<Cmd("E", Format(Scaled(m, 10), 4))>>
    [] key = "ohp" ->
         <<Cmd("H", Format(m \div 3600000, 2)),
           Cmd("M", Format((m % 3600000) \div 60000, 2)),
           Cmd("S", Format((m % 60000) \div 1000, 2))>>
    [] key = "ohp_enable" ->
         <<Cmd(IF m # 0 THEN "X" ELSE "Y", <<>>)>>
    [] key \in {"mem", "memory"} ->
         <<Cmd(IF m = 1 THEN "O" ELSE "P", <<>>)>>
    [] OTHER -> <<>>

\* the commands handle_command has set send for the argument key=val:
\* 'ohp' takes int(val) seconds and switches the timer on or off, every
\* other key is handed to set with float(val) ('mem' with the text val)
CommandCalls(key, m) ==
  IF key = "ohp"
  THEN IF m \div 1000 > 0
       THEN SetCommands("ohp", (m \div 1000) * 1000)
            \o SetCommands("ohp_enable", 1000)
       ELSE SetCommands("ohp_enable", 0)
  ELSE SetCommands(key, m)

\* set calls check after the send: if self.check_mode, for 'v' and 'c' only
Checked(key) == key \in {"v", "voltage", "c", "current"}

\* the field check reads back
CheckedField(key) ==
  IF key \in {"v", "voltage"} THEN "target_voltage" ELSE "target_current"

\* a send that does not wait before it writes
SendNoDelay(cmds) ==
  /\ writes' = writes \o cmds
  /\ paced' = paced

\* send, once per command: time.sleep(self.delay), then sio.write
Send(cmds) ==
  /\ writes' = writes \o cmds
  /\ paced' = paced + Len(cmds)

LogOff == Cmd("W", <<>>)

LogOn == Cmd("Q", <<>>)

\* check: self.stat(10)
CheckRecords == 10

\* the value of a key a dict does not have
None == [none |-> TRUE]

\* stat.get(key)
Get(d, key) == IF key \in DOMAIN d THEN d[key] ELSE None

\* a comparison that passes a snapshot without the field
MismatchIfPresent(got, want) == got # None /\ got # want

\* stat.get(key) != value
Mismatch(got, want) == got # want

----------------------------------------------------------------------------
(* SpecSet: handle_command running set commands, with or without the       *)
(* double-check mode.  The device is silent until logging is switched on   *)
(* by "Q"; from then on it emits items0.                                   *)

Arg(key, m) == [key |-> key, value |-> m]

\* what the device reports after a set of 0.29 V sent as V0028
TargetsDrift == Frag("Targets", <<28, 1000>>, TargetsWidths)

\* what the device reports when V0150 arrived as V1500
TargetsTenfold == Frag("Targets", <<1500, 1000>>, TargetsWidths)

\* device output after "Q"
CheckStreams ==
  {<<>>, <<TargetsA>>, <<TargetsZero>>, <<TargetsDrift>>, <<TargetsTenfold>>,
   <<LiveA, TargetsA>>, <<TargetsA, TargetsZero>>, <<Limits4, TargetsA, LiveA>>,
   <<LiveA>>, <<LiveBad>>, <<RawHigh>>}

\* key=value arguments of the command line: 0.29 V, 1.5 V, 99.99 V, 100 V,
\* 1 A, 1.001 A, 10 A, 1000 W, 3661 s, ...
SetArgs ==
  {Arg("v", m) : m \in {0, 290, 1500, 99990, 100000}}
  \cup {Arg("c", m) : m \in {0, 1000, 1001, 10000}}
  \cup {Arg("ovp", m) : m \in {1500, 100000}}
  \cup {Arg("ocp", m) : m \in {1000, 10000}}
  \cup {Arg("opp", m) : m \in {1500, 1000000}}
  \cup {Arg(k, m) : k \in {"power", "log", "noprotect", "ohp_enable"},
                    m \in {0, 1000}}
  \cup {Arg("ohp", 3661000), Arg("ohp", 0), Arg("mem", 1), Arg("mem", 2),
        Arg("bogus", 1000)}

CheckOn == Arg("check", 1000)

CheckOff == Arg("check", 0)

\* opt.args: one command, alone or after check=1, and a few longer lists
ArgLists ==
  {<<a>> : a \in SetArgs}
  \cup {<<CheckOn, a>> : a \in SetArgs}
  \cup {<<CheckOn, Arg("v", 1500), Arg("c", 1000)>>,
        <<CheckOn, CheckOff, Arg("v", 1500)>>,
        <<>>}

InitSet ==
  /\ items0 \in CheckStreams
  /\ args \in ArgLists
  /\ ip = 1
  /\ check_mode = FALSE
  /\ writes = <<>> /\ paced = 0
  /\ port = "closed"
  /\ pc = "start" /\ err = ""
  /\ caller = "handle_command"
  /\ wire = <<>> /\ buf = <<>>
  /\ nr = 0 /\ nr0 = 0 /\ timeout = 0 /\ clock = 0
  /\ yielded = <<>> /\ ends = <<>>
  /\ snapshot = EmptyDict /\ statRet = NoReturn
  /\ lastIn = <<>> /\ lastOut = NoResult
  /\ firstRead = -1 /\ stalls = 0

tracevars ==
  <<items0, wire, buf, nr, nr0, timeout, clock, yielded, ends, caller,
    snapshot, statRet, lastIn, lastOut, firstRead, stalls>>

\* dc = eval(opt.model)(opt.port): the port is opened, check_mode is off and
\* flush sends "W"; nothing is pending, so flush's first read ends it
Construct ==
  /\ pc = "start"
  /\ port' = "open"
  /\ check_mode' = FALSE
  /\ Send(<<LogOff>>)
  /\ pc' = "cmds"
  /\ UNCHANGED <<args, ip, err>>
  /\ UNCHANGED tracevars

\* one argument of the command line, up to the call of check:
\* set('check', ..) sets the mode, every other key sends its commands
SetCommand ==
  /\ pc = "cmds" /\ ip <= Len(args)
  /\ LET key == args[ip].key
         m == args[ip].value
     IN /\ check_mode' = IF key = "check" THEN m # 0 ELSE check_mode
        /\ Send(CommandCalls(key, m))
        /\ IF check_mode /\ Checked(key)
           THEN pc' = "check" /\ ip' = ip
           ELSE pc' = "cmds" /\ ip' = ip + 1
  /\ UNCHANGED <<args, port, err>>
  /\ UNCHANGED tracevars

\* check: self.set('log', 0)
CheckLogOff ==
  /\ pc = "check"
  /\ Send(<<LogOff>>)
  /\ pc' = "check_on"
  /\ UNCHANGED <<args, ip, check_mode, port, err>>
  /\ UNCHANGED tracevars

\* check: self.set('log', 1); the device starts to emit
CheckLogOn ==
  /\ pc = "check_on"
  /\ Send(<<LogOn>>)
  /\ wire' = wire \o Flatten(items0)
  /\ pc' = "check_stat"
  /\ UNCHANGED <<args, ip, check_mode, port, err>>
  /\ UNCHANGED <<items0, buf, nr, nr0, timeout, clock, yielded, ends, caller,
                 snapshot, statRet, lastIn, lastOut, firstRead, stalls>>

\* check: stat = self.stat(10), which starts trace(nr=10)
CheckStat ==
  /\ pc = "check_stat"
  /\ caller' = "stat"
  /\ nr' = CheckRecords /\ nr0' = CheckRecords
  /\ timeout' = DefaultTimeout(CheckRecords)
  /\ clock' = 0
  /\ buf' = <<>>
  /\ yielded' = <<>> /\ ends' = <<>>
  /\ snapshot' = EmptyDict /\ statRet' = NoReturn
  /\ pc' = "loop"
  /\ UNCHANGED <<items0, wire, err, lastIn, lastOut, firstRead, stalls>>
  /\ UNCHANGED setvars

\* check, after stat returned: stat.get(key) raises AttributeError when stat
\* is None; a value other than the expected one raises ValueError
CheckCompare ==
  /\ pc = "returned" /\ ip <= Len(args)
  /\ LET key == CheckedField(args[ip].key)
         want == Value(args[ip].value)
     IN IF statRet.kind = "None"
        THEN pc' = "raised" /\ err' = "AttributeError" /\ ip' = ip
        ELSE IF Mismatch(Get(statRet.val, key), want)
        THEN pc' = "raised" /\ err' = "ValueError" /\ ip' = ip
        ELSE pc' = "cmds" /\ err' = err /\ ip' = ip + 1
  /\ caller' = "handle_command"
  /\ UNCHANGED <<args, check_mode, writes, paced, port>>
  /\ UNCHANGED <<items0, wire, buf, nr, nr0, timeout, clock, yielded, ends,
                 snapshot, statRet, lastIn, lastOut, firstRead, stalls>>

\* the for loop over opt.args is exhausted: handle_command returns
HandleReturn ==
  /\ pc = "cmds" /\ ip > Len(args)
  /\ pc' = "exit"
  /\ UNCHANGED <<err>>
  /\ UNCHANGED setvars
  /\ UNCHANGED tracevars

NextSet ==
  \/ Construct \/ SetCommand \/ CheckLogOff \/ CheckLogOn \/ CheckStat
  \/ TraceYield \/ TraceSleep \/ TraceRaise \/ TraceExit \/ StatReturn
  \/ CheckCompare \/ HandleReturn

SpecSet == InitSet /\ [][NextSet]_vars

----------------------------------------------------------------------------
(* SpecRoundTrip: a target value encoded by set, reported back by the      *)
(* device in a type-2 fragment, decoded by parse_status                    *)

\* targets of the round trip, in thousandths: k/100 V and j/1000 A
RoundTripArgs ==
  {Arg("v", 10 * k) : k \in (0..MaxCenti) \cup {150, 9999}}
  \cup {Arg("c", j) : j \in {0, 1, 999, 1000, 1001, 1002, 9999}}

InitRoundTrip ==
  /\ args \in {<<a>> : a \in RoundTripArgs}
  /\ ip = 1
  /\ check_mode = FALSE
  /\ writes = <<>> /\ paced = 0
  /\ port = "open"
  /\ pc = "encode" /\ err = ""
  /\ caller = "roundtrip"
  /\ items0 = <<>>
  /\ wire = <<>> /\ buf = <<>>
  /\ nr = 0 /\ nr0 = 0 /\ timeout = 0 /\ clock = 0
  /\ yielded = <<>> /\ ends = <<>>
  /\ snapshot = EmptyDict /\ statRet = NoReturn
  /\ lastIn = <<>> /\ lastOut = NoResult
  /\ firstRead = -1 /\ stalls = 0

\* set('v', value) or set('c', value) with check_mode off; the digits sent
\* come back as the matching group of a type-2 fragment, the other group 0000
RoundTripEncode ==
  /\ pc = "encode"
  /\ LET key == args[ip].key
         cmds == SetCommands(key, args[ip].value)
         zero == Digits(0, 4)
     IN /\ Send(cmds)
        /\ buf' = IF key = "v"
                  THEN cmds[1].arg \o <<SepA>> \o zero \o <<SepA>>
                  ELSE zero \o <<SepA>> \o cmds[1].arg \o <<SepA>>
  /\ ip' = ip + 1
  /\ pc' = "ready"
  /\ UNCHANGED <<args, check_mode, port, err>>
  /\ UNCHANGED <<items0, wire, nr, nr0, timeout, clock, yielded, ends, caller,
                 snapshot, statRet, lastIn, lastOut, firstRead, stalls>>

NextRoundTrip == RoundTripEncode \/ ParseApply

SpecRoundTrip == InitRoundTrip /\ [][NextRoundTrip]_vars

----------------------------------------------------------------------------
(* What the claims speak of *)

\* the cause labels as the specification lists them
SpecCause == <<"none", "OVP", "OCP", "OPP", "OTP", "OHP">>

IsFragment(item) == item.shape \in {"Live", "Limits", "Targets"}

\* a Live fragment whose cause digit is in 0..5
IsValidLive(item) == item.shape = "Live" /\ item.g[7] \in 0..5

IsValidFragment(item) ==
  IsFragment(item) /\ (item.shape = "Live" => IsValidLive(item))

\* the record the specification assigns to a fragment with digit groups g
RecordOf(item) ==
  LET g == item.g
  IN CASE item.shape = "Live" ->
            [voltage |-> TrueDiv(g[1], 100), current |-> TrueDiv(g[2], 1000),
             power |-> TrueDiv(g[3], 100), temperature |-> g[5],
             mode |-> IF g[6] = 0 THEN "CV" ELSE "CC",
             cause |-> IF g[7] \in 0..5 THEN SpecCause[g[7] + 1] ELSE "?",
             enable |-> g[8]]
       [] item.shape = "Limits" ->
            [ovp |-> TrueDiv(g[1], 100), ocp |-> g[2],
             opp |-> TrueDiv(g[3], 100), ohp_enable |-> g[4],
             ohp_h |-> g[5], ohp_m |-> g[6], ohp_s |-> g[7]]
       [] OTHER ->
            [target_voltage |-> TrueDiv(g[1], 100),
             target_current |-> TrueDiv(g[2], 1000)]

RecordsOf(items) == [i \in 1..Len(items) |-> RecordOf(items[i])]

SpansOf(items) == [i \in 1..Len(items) |-> Len(Encode(items[i]))]

Called == lastOut.kind # ""

\* C1: two complete fragments of shapes Live, Limits or Targets in one
\* buffer decode, by repeated parse_status, to exactly two records, the
\* first with the first fragment's fields and span, the second with the
\* second's, and nothing remains.
C1_TwoFragmentsTwoRecords ==
  (caller = "parse" /\ Len(items0) = 2
     /\ IsFragment(items0[1]) /\ IsFragment(items0[2]))
  => /\ pc # "raised"
     /\ IsPrefix(yielded, RecordsOf(items0))
     /\ IsPrefix(ends, SpansOf(items0))
     /\ pc = "nomatch" => (Len(yielded) = 2 /\ buf = <<>>)

\* C2: for every buffer that starts with a Live fragment whose cause digit
\* is in 0..5, parse_status returns that fragment's record (voltage D1/100,
\* current D2/1000, power D3/100, temperature D5, mode, cause, enable) and
\* the remainder is the buffer after the fragment's last separator.
C2_LiveDecodedAndRemainder ==
  \A f \in {x \in ParseCatalog : IsValidLive(x)} :
    (caller = "parse" /\ Called /\ IsPrefix(Encode(f), lastIn))
    => /\ lastOut.kind = "ok"
       /\ lastOut.stat = RecordOf(f)
       /\ lastOut.rest = Suffix(lastIn, Len(Encode(f)) + 1)

\* C3: whatever way the transport splits a stream of complete fragments
\* into reads, trace yields one record per fragment, in order and of that
\* fragment's shape.
C3_FramingIndependent ==
  (\A i \in 1..Len(items0) : IsValidFragment(items0[i]))
  => /\ pc # "raised"
     /\ IsPrefix(yielded, RecordsOf(items0))

\* C4: a record count of 0 or below never stops the reader: such a session
\* ends only because a positive timeout has elapsed.
C4_NonPositiveCountRunsOn ==
  (nr0 <= 0 /\ pc \in {"done", "returned"})
  => (timeout > 0 /\ clock >= timeout)

\* C5: a Live or LiveWithPrefix fragment with a cause digit outside 0..5
\* does not crash the read loop.
C5_BadCauseDoesNotCrash == ~(pc = "raised" /\ err = "IndexError")

\* C6: bytes that are not ASCII never make parse_status or the trace loop
\* raise.
C6_NonAsciiDoesNotRaise == ~(pc = "raised" /\ err = "UnicodeDecodeError")

\* C7: garbage bytes followed by a complete valid Live fragment, where no
\* anchored shape matches, decode under LiveWithPrefix to that fragment's
\* record, consuming the garbage and the fragment.
C7_GarbagePrefixResync ==
  (caller = "parse" /\ Len(items0) = 2 /\ Len(ends) <= 1
     /\ items0[1].shape = "Raw" /\ IsValidLive(items0[2])
     /\ Called /\ lastIn = Flatten(items0)
     /\ ~MatchLive(lastIn).matched /\ ~MatchLimits(lastIn).matched
     /\ ~MatchTargets(lastIn).matched)
  => /\ lastOut.kind = "ok"
     /\ lastOut.frag_type = 3
     /\ lastOut.stat = RecordOf(items0[2])
     /\ lastOut.end = Len(lastIn)
     /\ lastOut.rest = <<>>

\* C8: a buffer that satisfies the anchored Live shape is decoded as Live
\* (the first of the four shapes), the match is returned and only the
\* anchored fragment's bytes are consumed.
C8_AnchoredLiveFirst ==
  (caller = "parse" /\ Called /\ Decodable(lastIn) /\ MatchLive(lastIn).matched)
  => /\ lastOut.kind = "ok"
     /\ lastOut.frag_type = 0
     /\ lastOut.end = PatternLen(LiveWidths)
     /\ lastOut.rest = Suffix(lastIn, PatternLen(LiveWidths) + 1)

\* the transport holds only valid Live fragments, at least n of them, and
\* the first read returns n or more of them
LiveBurstAvailable ==
  /\ nr0 > 0 /\ timeout > 0
  /\ Len(items0) >= nr0
  /\ \A i \in 1..Len(items0) : IsValidLive(items0[i])
  /\ firstRead >= nr0 * PatternLen(LiveWidths)

\* C9: asked for n > 0 records with a timeout T > 0 while at least n valid
\* Live fragments are available without delay, trace yields exactly n
\* records, never more, and ends before the timeout elapses (it never
\* sleeps: every iteration yields one of the n records).
C9_ExactlyNBeforeTimeout ==
  LiveBurstAvailable
  => /\ pc # "raised"
     /\ Len(yielded) <= nr0
     /\ nr = nr0 - Len(yielded)
     /\ clock = 0
     /\ IsPrefix(yielded, RecordsOf(items0))
     /\ pc \in {"done", "returned"} => (Len(yielded) = nr0 /\ clock < timeout)

C9_Witness ==
  /\ caller = "trace" /\ pc = "done"
  /\ nr0 = 3 /\ timeout = 10
  /\ items0 = LiveRun(3)
  /\ firstRead = 3 * PatternLen(LiveWidths)
  /\ Len(yielded) = 3

\* the keys of the records in a sequence
KeysOf(recs) == UNION {DOMAIN recs[i] : i \in 1..Len(recs)}

\* the last record that has key k
LastWith(recs, k) ==
  CHOOSE i \in 1..Len(recs) :
    k \in DOMAIN recs[i] /\ \A j \in (i + 1)..Len(recs) : k \notin DOMAIN recs[j]

\* C10: stat(N) returns the last-write-wins union, in yield order, of the
\* at most N records of its trace session; it returns None exactly when no
\* record was produced (a snapshot of zeros is still a snapshot).
C10_StatIsLastWriteWinsUnion ==
  (caller = "stat" /\ pc = "returned")
  => /\ Len(yielded) <= nr0
     /\ (statRet.kind = "None") <=> (Len(yielded) = 0)
     /\ statRet.kind = "dict" =>
          /\ DOMAIN statRet.val = KeysOf(yielded)
          /\ \A k \in KeysOf(yielded) :
               statRet.val[k] = yielded[LastWith(yielded, k)][k]

C10_Witness ==
  /\ caller = "stat" /\ pc = "returned" /\ statRet.kind = "dict"
  /\ \E i, j \in 1..Len(yielded) :
       /\ i < j
       /\ "target_voltage" \in DOMAIN yielded[i] \cap DOMAIN yielded[j]
       /\ yielded[i]["target_voltage"] # yielded[j]["target_voltage"]

\* the check of the command at ip has the snapshot in hand
CheckDecides == pc = "returned" /\ ip <= Len(args)

\* the read-back value and the expected value of that check
ReadBack == Get(statRet.val, CheckedField(args[ip].key))

Expected == Value(args[ip].value)

\* C11: in double-check mode check returns normally only when the
\* snapshot's value for the key equals the expected value exactly; when the
\* read-back value differs it raises ValueError, and in either case it
\* neither sends the set command again nor reads again.
C11_CheckPassesOnlyOnEqual ==
  [][(CheckDecides /\ statRet.kind = "dict")
       => /\ (ReadBack = Expected)
               => (pc' = "cmds" /\ ip' = ip + 1 /\ err' = "")
          /\ (ReadBack # Expected)
               => (pc' = "raised" /\ err' = "ValueError")
          /\ UNCHANGED <<writes, paced, wire, buf, yielded, snapshot, statRet>>]_vars

C11_Witness ==
  /\ pc = "raised" /\ err = "ValueError"
  /\ args[ip] = Arg("v", 1500)
  /\ statRet.kind = "dict"
  /\ "target_voltage" \in DOMAIN statRet.val
  /\ statRet.val["target_voltage"] = TrueDiv(1500, 100)

\* C12: the port opened when the session is created is closed again when
\* handle_command ends, whether it returns or an exception leaves it.
C12_PortReleasedOnExit ==
  pc \in {"exit", "raised"} => port = "closed"

\* the commands whose argument is a field of four digits
FieldOps == {"V", "I", "B", "D", "E"}

\* C13: set never writes a voltage, current, ovp, ocp or opp command whose
\* digit field is not exactly four digits wide (a value that does not fit
\* is refused, nothing is written).
C13_FieldIsFourDigits ==
  \A i \in 1..Len(writes) :
    writes[i].op \in FieldOps => Len(writes[i].arg) = 4

\* C14: the digits set sends for a target voltage k/100 (or a target
\* current j/1000), put into a type-2 fragment and decoded by parse_status,
\* give back exactly that value.
C14_RoundTripExact ==
  (caller = "roundtrip" /\ Called)
  => /\ Len(yielded) >= 1
     /\ yielded[1][CheckedField(args[1].key)] = Value(args[1].value)

RECURSIVE SumSeq(_)
SumSeq(s) == IF s = <<>> THEN 0 ELSE Head(s) + SumSeq(Tail(s))

\* C15: at every point of a trace session the bytes consumed by successful
\* decodes, followed by the buffer, are the bytes read so far: the buffer
\* is what was read, minus a front span per decoded record.
C15_BufferConservation ==
  LET all == Flatten(items0)
      got == Len(all) - Len(wire)
      used == SumSeq(ends)
  IN /\ used <= got
     /\ buf = SubSeq(all, used + 1, got)
     /\ wire = SubSeq(all, got + 1, Len(all))

C15_Witness ==
  /\ pc = "loop"
  /\ Len(ends) >= 1
  /\ buf # <<>> /\ wire # <<>>

\* C16: when parse_status returns no match, for the empty buffer too, the
\* remainder is the input, unchanged; when it returns a record the
\* remainder is a strictly shorter suffix of the input.
C16_RemainderUnchangedOrShorter ==
  (caller = "parse" /\ Called)
  => /\ lastIn = <<>> => lastOut.kind = "none"
     /\ lastOut.kind = "none" => lastOut.rest = lastIn
     /\ lastOut.kind = "ok" =>
          /\ Len(lastOut.rest) < Len(lastIn)
          /\ lastOut.rest = Suffix(lastIn, Len(lastIn) - Len(lastOut.rest) + 1)

C16_Witness ==
  /\ caller = "parse" /\ pc = "nomatch"
  /\ Len(yielded) >= 1
  /\ lastIn # <<>> /\ lastOut.rest = lastIn

\* a complete type-1 or type-2 fragment lies within the first n bytes of text
HasLimitsOrTargets(text, n) ==
  \E p \in 1..n :
    \E w \in {LimitsWidths5, LimitsWidths4, TargetsWidths} :
      /\ MatchAt(text, p, w).matched
      /\ MatchAt(text, p, w).end <= n

\* C17: when parse_status returns a record by the type-3 pattern, the bytes
\* it discards before the Live fragment contain no complete Limits or
\* Targets fragment.
C17_PrefixHoldsNoFragment ==
  (caller = "parse" /\ Called /\ lastOut.kind = "ok" /\ lastOut.frag_type = 3)
  => ~HasLimitsOrTargets(lastIn, lastOut.end - PatternLen(LiveWidths))

\* the commands handle_command writes for a list of arguments, check_mode
\* being `mode` at its start
RECURSIVE WritesOf(_, _)
WritesOf(as, mode) ==
  IF as = <<>> THEN <<>>
  ELSE LET a == Head(as)
       IN CommandCalls(a.key, a.value)
          \o (IF mode /\ Checked(a.key) THEN <<LogOff, LogOn>> ELSE <<>>)
          \o WritesOf(Tail(as), IF a.key = "check" THEN a.value # 0 ELSE mode)

\* C18: in double-check mode a set of voltage or current writes the set
\* command, then W, then Q, and reads the snapshot of up to 10 records only
\* after Q; every write follows a pacing delay; with double-check off (and
\* for the other keys) only the set command is written.
C18_SetThenOffThenOnThenRead ==
  /\ paced = Len(writes)
  /\ pc \in {"check", "check_on", "check_stat", "loop", "done", "returned"}
     => LET n == Len(writes)
            set == SetCommands(args[ip].key, args[ip].value)[1]
        IN /\ check_mode /\ Checked(args[ip].key)
           /\ n >= 2 /\ writes[1] = LogOff
           /\ CASE pc = "check" -> writes[n] = set
                [] pc = "check_on" ->
                     n >= 3 /\ writes[n - 1] = set /\ writes[n] = LogOff
                [] OTHER ->
                     /\ n >= 4 /\ writes[n - 2] = set
                     /\ writes[n - 1] = LogOff /\ writes[n] = LogOn
  /\ pc \in {"loop", "done", "returned"} => (nr0 = 10 /\ Len(yielded) <= 10)
  /\ firstRead # -1 => \E i \in 1..Len(writes) : writes[i] = LogOn
  /\ pc = "exit" => writes = <<LogOff>> \o WritesOf(args, FALSE)

C18_Witness ==
  /\ pc = "returned"
  /\ firstRead # -1
  /\ writes = <<LogOff, Cmd("V", Digits(150, 4)), LogOff, LogOn>>

\* no complete fragment of any layout lies anywhere in text
NoFragmentIn(text) ==
  \A p \in 1..Len(text) :
    \A w \in {LiveWidths, LimitsWidths5, LimitsWidths4, TargetsWidths} :
      ~MatchAt(text, p, w).matched

\* what is left of the session: time until the timeout and bytes not yet
\* consumed
Remaining == (timeout - clock) + Len(buf) + Len(wire)

\* C19: a trace session over ASCII content with a timeout T > 0 ends: every
\* iteration either ends the session or uses up time or bytes, the clock
\* bound is tested once per iteration, so the clock never passes T and the
\* iteration that finds it at T ends the session; if the content never
\* holds a decodable fragment the session ends at T having yielded nothing
\* and raised nothing.
C19_TraceTerminates ==
  /\ [](( timeout > 0 /\ Decodable(Flatten(items0)) )
          => /\ clock <= timeout
             /\ pc = "loop" => Remaining >= 0
             /\ NoFragmentIn(Flatten(items0))
                  => /\ yielded = <<>>
                     /\ pc # "raised"
                     /\ (pc # "loop" /\ nr0 # 0) => clock = timeout)
  /\ [][( timeout > 0 /\ Decodable(Flatten(items0)) /\ pc = "loop" )
          => /\ pc' # "loop" \/ Remaining' < Remaining
             /\ clock >= timeout
                  => (pc' = "done" /\ yielded' = yielded /\ wire' = wire)]_vars

C19_Witness ==
  /\ caller = "trace" /\ pc = "done"
  /\ items0 = <<RawKB, RawKB>>
  /\ nr0 = -1 /\ timeout = 10 /\ clock = 10
  /\ yielded = <<>>

\* C20: when the read-back of a check yields no record, or a snapshot
\* without the checked field, check raises the ValueError of a failed
\* verification: it does not return and raises nothing else.
C20_NoDataIsVerificationFailure ==
  [][(CheckDecides
        /\ (statRet.kind = "None" \/ CheckedField(args[ip].key) \notin DOMAIN statRet.val))
       => (pc' = "raised" /\ err' = "ValueError")]_vars

====
